---- MODULE Spec2Model ----
(***************************************************************************)
(* State-machine model of payslip1.py: PayslipGenerator.__init__ and       *)
(* _load_initial_data, _validate_data, and process_all with the calls it   *)
(* makes to generate_payslip and send_email.  The spreadsheet, the file    *)
(* system, the mail server and the process environment are the inputs.     *)
(***************************************************************************)
EXTENDS Integers, Sequences, FiniteSets, TLC

\* Largest number of rows of the input table.
MaxRows == 3

----------------------------------------------------------------------------
\* Column labels.  pandas.read_excel gives a str label for a text header
\* cell and an int label for a numeric header cell.
StrLabel(cs) == [isStr |-> TRUE, chars |-> cs]

IntLabel == [isStr |-> FALSE, chars |-> <<"2", "0", "2", "4">>]

EmployeeID == StrLabel(<<"E", "m", "p", "l", "o", "y", "e", "e", " ", "I", "D">>)

Name == StrLabel(<<"N", "a", "m", "e">>)

Email == StrLabel(<<"E", "m", "a", "i", "l">>)

BasicSalary == StrLabel(<<"B", "a", "s", "i", "c", " ", "S", "a", "l", "a", "r", "y">>)

Allowances == StrLabel(<<"A", "l", "l", "o", "w", "a", "n", "c", "e", "s">>)

Deductions == StrLabel(<<"D", "e", "d", "u", "c", "t", "i", "o", "n", "s">>)

\* 'ALLOWANCES ' : upper case with a trailing space.
AllowancesVariant == StrLabel(<<"A", "L", "L", "O", "W", "A", "N", "C", "E", "S", " ">>)

\* 'name' : a case variant of another required column.
NameVariant == StrLabel(<<"n", "a", "m", "e">>)

\* str.lower() on one character.
UpperChars == <<"A", "B", "C", "D", "E", "F", "G", "H", "I", "J", "K", "L", "M",
                "N", "O", "P", "Q", "R", "S", "T", "U", "V", "W", "X", "Y", "Z">>

LowerChars == <<"a", "b", "c", "d", "e", "f", "g", "h", "i", "j", "k", "l", "m",
                "n", "o", "p", "q", "r", "s", "t", "u", "v", "w", "x", "y", "z">>

LowerChar(c) ==
    IF \E i \in 1..Len(UpperChars) : UpperChars[i] = c
    THEN LowerChars[CHOOSE i \in 1..Len(UpperChars) : UpperChars[i] = c]
    ELSE c

\* str.lower()
Lower(cs) == [i \in 1..Len(cs) |-> LowerChar(cs[i])]

Whitespace == {" ", "\t", "\n"}

\* str.strip(): drops leading and trailing whitespace.
Strip(cs) ==
    LET keep == {i \in 1..Len(cs) : cs[i] \notin Whitespace}
    IN  IF keep = {} THEN <<>>
        ELSE LET lo == CHOOSE i \in keep : \A j \in keep : i <= j
                 hi == CHOOSE i \in keep : \A j \in keep : j <= i
             IN  SubSeq(cs, lo, hi)

\* required_columns of _validate_data.
required_columns == {EmployeeID, Name, Email, BasicSalary, Allowances, Deductions}

\* set(self.employee_data.columns)
ColumnSet(cols) == {cols[i] : i \in 1..Len(cols)}

\* The loop of _load_initial_data over actual_columns: the index of the first
\* column whose lower-cased, stripped name is 'allowances' (0 when there is
\* none), or raised when col.lower() is applied to a label that is not a str.
RECURSIVE ScanAllowances(_, _)
ScanAllowances(cols, i) ==
    IF i > Len(cols) THEN [raised |-> FALSE, found |-> 0]
    ELSE IF ~cols[i].isStr THEN [raised |-> TRUE, found |-> 0]
    ELSE IF Strip(Lower(cols[i].chars)) = Lower(Allowances.chars)
         THEN [raised |-> FALSE, found |-> i]
    ELSE ScanAllowances(cols, i + 1)

\* DataFrame.rename(columns={found_allowances: expected_allowances}).
RenameColumn(cols, old, new) ==
    [i \in 1..Len(cols) |-> IF cols[i] = old THEN new ELSE cols[i]]

\* The columns after the 'Allowances' repair (the scan did not raise).
NormalizeAllowances(cols) ==
    LET found == ScanAllowances(cols, 1).found
    IN  IF found # 0 /\ cols[found] # Allowances
        THEN RenameColumn(cols, cols[found], Allowances)
        ELSE cols

\* _validate_data: the result.
ValidateData(cols) == required_columns \subseteq ColumnSet(cols)

\* _validate_data: missing_columns.
MissingColumns(cols) == required_columns \ ColumnSet(cols)

----------------------------------------------------------------------------
VARIABLES
    file,             \* the spreadsheet at excel_file: state, header, nrows
    sender,           \* SENDER_EMAIL / SENDER_PASSWORD: set in the environment or None
    employee_data,    \* self.employee_data
    loadResult,       \* what _load_initial_data returned
    log,              \* the lines logging.error appended to LOG_FILE
    pc,               \* position of the main program
    k,                \* number of rows iterrows() has yielded
    success_count,    \* process_all: success_count
    total_employees,  \* process_all: total_employees
    result,           \* what process_all returned
    events,           \* render, send and log events in the order they happened
    session,          \* TRUE while an smtplib.SMTP session is open
    renderCalls,      \* per row: calls of generate_payslip
    rendered,         \* per row: generate_payslip returned a path
    sendCalls,        \* per row: calls of send_email
    sessionsOpened,   \* per row: smtplib.SMTP sessions opened
    delivered,        \* per row: send_email returned True
    counted           \* per row: success_count was incremented

vars == <<file, sender, employee_data, loadResult, log, pc, k, success_count,
          total_employees, result, events, session, renderCalls, rendered,
          sendCalls, sessionsOpened, delivered, counted>>

inputs == <<file, sender>>

loaderVars == <<employee_data, loadResult>>

tallyVars == <<success_count, total_employees, result>>

historyVars == <<renderCalls, rendered, sendCalls, sessionsOpened, delivered, counted>>

Rows == 1..MaxRows

\* self.employee_data = None of __init__.
NoData == [loaded |-> FALSE, columns |-> <<>>, nrows |-> 0]

\* The header cells a spreadsheet is drawn from, in sheet order.
HeaderCells == <<EmployeeID, Name, NameVariant, Email, BasicSalary,
                 AllowancesVariant, Allowances, Deductions, IntLabel>>

Reverse(s) == [i \in 1..Len(s) |-> s[Len(s) + 1 - i]]

\* The cells of HeaderCells at the positions in S, in order.
RECURSIVE Pick(_, _)
Pick(S, i) ==
    IF i > Len(HeaderCells) THEN <<>>
    ELSE IF i \in S THEN <<HeaderCells[i]>> \o Pick(S, i + 1)
    ELSE Pick(S, i + 1)

Headers ==
    LET fwd == {Pick(S, 1) : S \in SUBSET (1..Len(HeaderCells))}
    IN  fwd \cup {Reverse(h) : h \in fwd}

Files ==
    {[state |-> "missing", header |-> <<>>, nrows |-> 0],
     [state |-> "unreadable", header |-> <<>>, nrows |-> 0]}
    \cup {[state |-> "ok", header |-> h, nrows |-> n] : h \in Headers, n \in 0..MaxRows}

Init ==
    /\ file \in Files
    /\ sender \in [email : BOOLEAN, password : BOOLEAN]
    /\ employee_data = NoData
    /\ loadResult = FALSE
    /\ log = <<>>
    /\ pc = "init"
    /\ k = 0
    /\ success_count = 0
    /\ total_employees = 0
    /\ result = FALSE
    /\ events = <<>>
    /\ session = FALSE
    /\ renderCalls = [r \in Rows |-> 0]
    /\ rendered = [r \in Rows |-> FALSE]
    /\ sendCalls = [r \in Rows |-> 0]
    /\ sessionsOpened = [r \in Rows |-> 0]
    /\ delivered = [r \in Rows |-> FALSE]
    /\ counted = [r \in Rows |-> FALSE]

\* One logging.error line: who wrote it, for which row (0: the loader), and
\* the missing_columns set it carries.
LogLine(src, row, missing) == [src |-> src, row |-> row, missing |-> missing]

\* __init__ calling _load_initial_data; the return value is dropped.
LoadInitialData ==
    /\ pc = "init"
    /\ pc' = "constructed"
    /\ IF file.state = "missing"
       THEN /\ employee_data' = NoData
            /\ loadResult' = FALSE
            /\ log' = Append(log, LogLine("file_not_found", 0, {}))
       ELSE IF file.state = "unreadable"
       THEN /\ employee_data' = NoData
            /\ loadResult' = FALSE
            /\ log' = Append(log, LogLine("load_error", 0, {}))
       ELSE IF ScanAllowances(file.header, 1).raised
       THEN /\ employee_data' = [loaded |-> TRUE, columns |-> file.header,
                                 nrows |-> file.nrows]
            /\ loadResult' = FALSE
            /\ log' = Append(log, LogLine("load_error", 0, {}))
       ELSE LET cols == NormalizeAllowances(file.header)
            IN  /\ employee_data' = [loaded |-> TRUE, columns |-> cols,
                                     nrows |-> file.nrows]
                /\ loadResult' = ValidateData(cols)
                /\ log' = IF ValidateData(cols) THEN log
                          ELSE Append(log, LogLine("missing_columns", 0,
                                                   MissingColumns(cols)))
    /\ UNCHANGED <<inputs, k, tallyVars, events, session, historyVars>>

----------------------------------------------------------------------------
\* process_all

Event(row, kind) == [row |-> row, kind |-> kind]

Columns == ColumnSet(employee_data.columns)

\* The row iterrows() yields kk-th: table order.
RowAtReversed(kk) == total_employees + 1 - kk

RowAt(kk) == kk

Row == RowAt(k)

\* return success_count == total_employees
ReturnValueAny(sc, total) == sc > 0

ReturnValue(sc, total) == sc = total

\* if self.send_email(...): success_count += 1
CountSuccessAlways(sc, sent) == sc + 1

CountSuccess(sc, sent) == IF sent THEN sc + 1 ELSE sc

\* The end of the with block of send_email: SMTP.__exit__ closes the session.
LeaveSession(s) == s

CloseSession(s) == FALSE

\* logging.error of the except clauses of send_email.
SendEmailLogNothing(lg, src, row) == lg

SendEmailLog(lg, src, row) == Append(lg, LogLine(src, row, {}))

\* employee['Allowances'] is a Series when two columns carry that label, and
\* formatting it with :.2f raises TypeError.
DuplicateAllowances ==
    Cardinality({i \in 1..Len(employee_data.columns) :
                    employee_data.columns[i] = Allowances}) > 1

\* if self.employee_data is None: return False; else the two assignments
\* before the loop.
ProcessAll ==
    /\ pc = "constructed"
    /\ IF ~employee_data.loaded
       THEN /\ pc' = "done"
            /\ result' = FALSE
            /\ UNCHANGED <<success_count, total_employees>>
       ELSE /\ pc' = "loop"
            /\ success_count' = 0
            /\ total_employees' = employee_data.nrows
            /\ UNCHANGED result
    /\ UNCHANGED <<inputs, loaderVars, log, k, events, session, historyVars>>

\* for _, employee in self.employee_data.iterrows(): the next row.
NextRow ==
    /\ pc = "loop"
    /\ k < total_employees
    /\ k' = k + 1
    /\ pc' = "announce"
    /\ UNCHANGED <<inputs, loaderVars, log, tallyVars, events, session, historyVars>>

\* The loop is exhausted: the summary line and the return.
Return ==
    /\ pc = "loop"
    /\ k = total_employees
    /\ result' = ReturnValue(success_count, total_employees)
    /\ pc' = "done"
    /\ UNCHANGED <<inputs, loaderVars, log, k, success_count, total_employees,
                   events, session, historyVars>>

\* except Exception as e: the message is built from employee['Name'], which
\* raises KeyError out of process_all when the table has no Name column.
Except(row, ev) ==
    IF Name \in Columns
    THEN /\ log' = Append(log, LogLine("process_all", row, {}))
         /\ events' = Append(ev, Event(row, "log"))
         /\ pc' = "loop"
    ELSE /\ log' = log
         /\ events' = ev
         /\ pc' = "raised"

\* print(f"Processing employee: {employee['Name']} (ID: {employee['Employee ID']})")
Announce ==
    /\ pc = "announce"
    /\ IF Name \in Columns /\ EmployeeID \in Columns
       THEN /\ pc' = "render"
            /\ UNCHANGED <<log, events>>
       ELSE Except(Row, events)
    /\ UNCHANGED <<inputs, loaderVars, k, tallyVars, session, historyVars>>

\* payslip_path = self.generate_payslip(employee)
GeneratePayslip ==
    /\ pc = "render"
    /\ renderCalls' = [renderCalls EXCEPT ![Row] = @ + 1]
    /\ LET ev == Append(events, Event(Row, "render"))
       IN  IF \/ ~({BasicSalary, Allowances, Deductions} \subseteq Columns)
              \/ DuplicateAllowances
           THEN /\ Except(Row, ev)
                /\ UNCHANGED rendered
           ELSE \E written \in BOOLEAN :
                    IF written
                    THEN /\ rendered' = [rendered EXCEPT ![Row] = TRUE]
                         /\ pc' = "send"
                         /\ events' = ev
                         /\ UNCHANGED log
                    ELSE /\ Except(Row, ev)
                         /\ UNCHANGED rendered
    /\ UNCHANGED <<inputs, loaderVars, k, tallyVars, session, sendCalls,
                   sessionsOpened, delivered, counted>>

\* send_email returned: the if of process_all around it.
AfterSend(row, sent) ==
    /\ success_count' = CountSuccess(success_count, sent)
    /\ counted' = [counted EXCEPT ![row] = (success_count' # success_count)]
    /\ delivered' = [delivered EXCEPT ![row] = sent]
    /\ pc' = "loop"

\* self.send_email(employee['Email'], payslip_path) up to the end of the
\* with open(payslip_path, 'rb') block.
SendEmail ==
    /\ pc = "send"
    /\ IF Email \notin Columns
       THEN /\ Except(Row, events)
            /\ UNCHANGED <<sendCalls, success_count, counted, delivered>>
       ELSE /\ sendCalls' = [sendCalls EXCEPT ![Row] = @ + 1]
            /\ \E attached \in BOOLEAN :
                   IF attached
                   THEN /\ pc' = "connect"
                        /\ events' = Append(events, Event(Row, "send"))
                        /\ UNCHANGED <<log, success_count, counted, delivered>>
                   ELSE /\ log' = SendEmailLog(log, "send_email", Row)
                        /\ events' = events \o <<Event(Row, "send"), Event(Row, "log")>>
                        /\ AfterSend(Row, FALSE)
    /\ UNCHANGED <<inputs, loaderVars, k, total_employees, result, session,
                   renderCalls, rendered, sessionsOpened>>

\* with smtplib.SMTP(SMTP_SERVER, SMTP_PORT) as server: the connection.
Connect ==
    /\ pc = "connect"
    /\ \E connected \in BOOLEAN :
           IF connected
           THEN /\ session' = TRUE
                /\ sessionsOpened' = [sessionsOpened EXCEPT ![Row] = @ + 1]
                /\ pc' = "transmit"
                /\ UNCHANGED <<log, events, success_count, counted, delivered>>
           ELSE /\ log' = SendEmailLog(log, "send_email", Row)
                /\ events' = Append(events, Event(Row, "log"))
                /\ AfterSend(Row, FALSE)
                /\ UNCHANGED <<session, sessionsOpened>>
    /\ UNCHANGED <<inputs, loaderVars, k, total_employees, result, renderCalls,
                   rendered, sendCalls>>

\* starttls, login and send_message inside the with block, and its exit.
\* login with SENDER_EMAIL or SENDER_PASSWORD None is rejected.
Transmit ==
    /\ pc = "transmit"
    /\ session' = CloseSession(session)
    /\ \E sent \in (IF sender.email /\ sender.password THEN BOOLEAN ELSE {FALSE}) :
           /\ IF sent
              THEN UNCHANGED <<log, events>>
              ELSE /\ log' = SendEmailLog(log, "send_email_smtp", Row)
                   /\ events' = Append(events, Event(Row, "log"))
           /\ AfterSend(Row, sent)
    /\ UNCHANGED <<inputs, loaderVars, k, total_employees, result, renderCalls,
                   rendered, sendCalls, sessionsOpened>>

Next ==
    \/ LoadInitialData
    \/ ProcessAll
    \/ NextRow
    \/ Return
    \/ Announce
    \/ GeneratePayslip
    \/ SendEmail
    \/ Connect
    \/ Transmit

Spec == Init /\ [][Next]_vars

----------------------------------------------------------------------------
\* Properties

\* Row r has been through the loop body.
Finished(r) == r < k \/ (r = k /\ pc \in {"loop", "done", "raised"})

\* The error lines in the log about row r.
LinesOf(r) == {i \in DOMAIN log : log[i].row = r}

\* The loader produced a validated table with at least one row.
LoadedRecords == loadResult /\ employee_data.nrows > 0

\* C1: when the loader did not produce a non-empty validated record set,
\* process_all returns False at once: the loop is never entered, no
\* generate_payslip and no send_email call is made, and the result is False.
C1_LoaderFailureAborts ==
    (pc # "init" /\ ~LoadedRecords) =>
        /\ pc \in {"constructed", "done"}
        /\ pc = "done" => ~result
        /\ \A r \in Rows : renderCalls[r] = 0 /\ sendCalls[r] = 0

\* C2: an exception raised while a record is processed is caught inside
\* process_all: it never leaves process_all, the record's failure is logged
\* by process_all for that row, and every row of the table is processed
\* before process_all returns.
C2_RecordFailureIsolated ==
    /\ pc # "raised"
    /\ (pc = "done" /\ employee_data.loaded) => k = total_employees

\* C3: when process_all returns after the loop, it returns True exactly when
\* the number of rows counted as successful equals the number of rows of
\* the loaded table; the summary is success_count/total_employees with
\* 0 <= success_count <= total_employees.
C3_ReturnIffAllSucceeded ==
    /\ 0 <= success_count /\ success_count <= total_employees
    /\ (pc = "done" /\ employee_data.loaded) =>
            /\ total_employees = file.nrows
            /\ success_count = Cardinality({r \in Rows : counted[r]})
            /\ result <=> (Cardinality({r \in Rows : counted[r]}) = file.nrows)

C3_Witness ==
    /\ pc = "done"
    /\ employee_data.loaded
    /\ 0 < success_count
    /\ success_count < total_employees
    /\ ~result

\* C4: send_email is called for a row only after generate_payslip returned
\* for it; a row is counted only when its render and its delivery both
\* succeeded; a row that rendered and whose delivery failed is not counted,
\* and every row after it still goes through generate_payslip.
C4_SuccessNeedsRenderAndDelivery ==
    \A r \in Rows :
        /\ sendCalls[r] > 0 => rendered[r]
        /\ sessionsOpened[r] > 0 => rendered[r]
        /\ counted[r] => rendered[r] /\ delivered[r]
        /\ (Finished(r) /\ rendered[r] /\ ~delivered[r]) =>
               /\ ~counted[r]
               /\ pc # "raised"
               /\ pc = "done" => \A q \in (r + 1)..total_employees : renderCalls[q] = 1

C4_Witness ==
    /\ pc = "done"
    /\ \E r \in 1..(total_employees - 1) :
           /\ rendered[r] /\ sendCalls[r] = 1 /\ ~delivered[r] /\ ~counted[r]
           /\ counted[r + 1]

\* C5: rows are processed in table order without interleaving: in the
\* sequence of render, send and log events the row numbers never decrease,
\* every event belongs to a row already yielded, and inside one row the
\* render comes before the send.
C5_TableOrder ==
    /\ \A i, j \in DOMAIN events : i < j => events[i].row <= events[j].row
    /\ \A i \in DOMAIN events : events[i].row \in 1..k
    /\ \A i, j \in DOMAIN events :
           (events[i].row = events[j].row /\ events[i].kind = "render"
              /\ events[j].kind = "send") => i < j

C5_Witness ==
    /\ pc = "done"
    /\ \E i, j \in DOMAIN events :
           /\ i < j
           /\ events[i].row = 1 /\ events[i].kind = "log"
           /\ events[j].row = 2 /\ events[j].kind = "render"
    /\ \E i \in DOMAIN events : events[i].row = 2 /\ events[i].kind = "send"

\* C6 as stated: each row is rendered at most once and sent at most once,
\* every send_email call that has returned opened exactly one session, and
\* no session is open outside the with block.
C6_ExactlyOneSessionPerSend ==
    \A r \in Rows :
        /\ renderCalls[r] <= 1
        /\ sendCalls[r] <= 1
        /\ (Finished(r) /\ sendCalls[r] = 1) => sessionsOpened[r] = 1
        /\ session => pc = "transmit"

\* C6 amended: each row is rendered at most once and sent at most once;
\* a send_email call opens at most one session - exactly one when it
\* delivered, and none unless send_email was called for that row; the
\* session is open only inside the with block, so none is open when the
\* next row begins or when process_all returns.
C6_AtMostOneSessionPerSend ==
    /\ session <=> pc = "transmit"
    /\ \A r \in Rows :
           /\ renderCalls[r] <= 1
           /\ sendCalls[r] <= 1
           /\ sessionsOpened[r] <= sendCalls[r]
           /\ delivered[r] => sessionsOpened[r] = 1

C6_Witness ==
    /\ pc = "announce"
    /\ k = 2
    /\ sendCalls[1] = 1
    /\ sessionsOpened[1] = 1
    /\ ~delivered[1]
    /\ ~session

\* C7: a table whose columns (after the Allowances repair) lack a required
\* column fails to load and the loader reports exactly required_columns
\* minus the table's columns; a table with all six columns loads.
C7_MissingColumnsReported ==
    (pc # "init" /\ file.state = "ok") =>
        LET cols == ColumnSet(employee_data.columns)
        IN  /\ loadResult <=> (required_columns \subseteq cols)
            /\ ~loadResult =>
                   /\ Len(log) >= 1
                   /\ log[1].src = "missing_columns"
                   /\ log[1].missing = required_columns \ cols

\* The other five required columns are in the header.
OtherFive == {EmployeeID, Name, Email, BasicSalary, Deductions}

\* The label is a str equal to 'allowances' once lower-cased and stripped.
IsAllowancesVariant(label) ==
    label.isStr /\ Strip(Lower(label.chars)) = Lower(Allowances.chars)

\* C8: a table with the other five required columns and a column whose
\* name is 'Allowances' up to case and surrounding whitespace loads, with
\* that column named 'Allowances' afterwards; a table that has a required
\* column other than Allowances only as a case variant fails to load.
C8_AllowancesVariantLoads ==
    (pc # "init" /\ file.state = "ok") =>
        LET header == ColumnSet(file.header)
        IN  /\ (OtherFive \subseteq header /\ \E c \in header : IsAllowancesVariant(c)) =>
                   /\ loadResult
                   /\ Allowances \in ColumnSet(employee_data.columns)
            /\ (NameVariant \in header /\ Name \notin header) => ~loadResult

\* C9: with SENDER_EMAIL or SENDER_PASSWORD absent, no session to the mail
\* server is opened for any row.
C9_NoSessionWithoutCredentials ==
    (~sender.email \/ ~sender.password) =>
        /\ ~session
        /\ \A r \in Rows : sessionsOpened[r] = 0

\* C10: over a validated table, every row that went through the loop and
\* was not counted as a success has exactly one error line in the log and
\* every counted row has none, so when process_all returns the number of
\* error lines it added is total_employees - success_count.
C10_OneErrorLinePerFailure ==
    loadResult =>
        /\ Len(log) = Cardinality({i \in DOMAIN log : log[i].row \in 1..k})
        /\ \A r \in Rows :
               /\ Cardinality(LinesOf(r)) <= 1
               /\ Finished(r) =>
                      Cardinality(LinesOf(r)) = (IF counted[r] THEN 0 ELSE 1)
        /\ pc = "done" => Len(log) = total_employees - success_count

C10_Witness ==
    /\ pc = "done"
    /\ loadResult
    /\ success_count >= 1
    /\ \E i \in DOMAIN log : log[i].src = "process_all"
    /\ \E i \in DOMAIN log : log[i].src \in {"send_email", "send_email_smtp"}

====
